---- MODULE Spec2Model ----
(***************************************************************************)
(* SQLite3Database, the tabular store of IND-RegisterExplorer, in its two  *)
(* copies src/databases.py ("root") and src/backend/app/databases.py      *)
(* ("backend"), together with the part of the embedded SQL engine the     *)
(* statements it issues depend on: one table, its uniqueness indexes, the *)
(* open transaction of the connection and the committed file; and the two *)
(* scraping functions of src/backend/app/scraping.py, each run on the     *)
(* answer requests.get gives it.                                          *)
(*                                                                         *)
(* Text values are sequences of character codes (1, 2, ...); SQL NULL /   *)
(* Python None stored in a column is the one-element sequence <<0>>, 0    *)
(* being no character code.                                               *)
(***************************************************************************)
EXTENDS Integers, Sequences, FiniteSets, TLC

VARIABLES
    impl,        \* which copy of the class runs: "root" or "backend"
    connection,  \* self.connection: "None" or "open"
    cursor,      \* self.cursor: "None", "open", or "closed" (cursor of a closed connection)
    master,      \* the schema catalog: column list of the table, <<>> when it was never created
    rows,        \* the table's rows in rowid order as the connection sees them
    committed,   \* the table's rows as stored in the database file
    call,        \* the last call made on the object: method, table name, search term
    ret,         \* what the last call returned
    exc,         \* the exception the last call let through to its caller, "none" if it returned
    log,         \* the last message the call handed to LOGGER, "none" if it logged nothing
    response,    \* what requests.get answers to the scraping function that runs
    scraped      \* the last call of a scraping function: its arguments and how it ended

vars == <<impl, connection, cursor, master, rows, committed, call, ret, exc, log, response, scraped>>

----------------------------------------------------------------------------
(* Bounds and input domains *)

MaxRows == 2

Null == <<0>>
Strs == {<<1>>, <<1, 2>>}
Val == Strs \cup {Null}

TABLE_NAME == "organisations"
MissingTable == "missing"
TableNames == {TABLE_NAME, MissingTable}

COL1 == "organisation_name"
COL2 == "url"
ColNames == {COL1, COL2}
BadCol == "nocol"

DatabaseColInfo(n, t, c) == [name |-> n, data_type |-> t, col_constraint |-> c]

COL1_DATA == DatabaseColInfo(COL1, "TEXT", "PRIMARY KEY")
COL2_DATA == DatabaseColInfo(COL2, "TEXT", "UNIQUE")
OrgCols == <<COL1_DATA, COL2_DATA>>
PlainCols == <<DatabaseColInfo(COL1, "TEXT", ""), DatabaseColInfo(COL2, "TEXT", "")>>
Schemas == {OrgCols, PlainCols}

\* dictionaries passed as data / data_to_update: any mapping over a subset
\* of the table's columns, and one that names a column the table lacks
BadData == [c \in {BadCol} |-> <<1>>]
DataInputs == (UNION {[S -> Val] : S \in SUBSET ColNames}) \cup {BadData}

\* a call: the method, its table name, its search term, and for create_table
\* the column list it was given (<<>> with every other method). With
\* disconnect, and with the connect that follows it, term is the
\* organisation_name of the row whose successful insert was the call right
\* before (insert; disconnect; connect), NULL after any other call
NoCall == [op |-> "__init__", table |-> "", term |-> Null, columns |-> <<>>]
Call(o, t, v) == [op |-> o, table |-> t, term |-> v, columns |-> <<>>]

PyNone == [kind |-> "None"]
PyDict(r) == [kind |-> "dict", row |-> r]
PyList(s) == [kind |-> "list", vals |-> s]

\* no request was made, no scraping function was called
NoResponse == [kind |-> "none"]
NoScrape == [op |-> "none"]

----------------------------------------------------------------------------
(* Text *)

\* s occurs in t as a contiguous run of characters
IsSubstring(s, t) ==
    \E i \in 1..(Len(t) - Len(s) + 1) : SubSeq(t, i, i + Len(s) - 1) = s

IsProperSubstring(s, t) == s # t /\ IsSubstring(s, t)

\* SQL comparison "column = ?": NULL on either side is never equal
SqlEq(a, b) == a # Null /\ b # Null /\ a = b

\* index order of two values: NULL first, then text by character codes
RECURSIVE TextLess(_, _)
TextLess(s, t) ==
    IF s = <<>> THEN t # <<>>
    ELSE IF t = <<>> THEN FALSE
    ELSE IF Head(s) # Head(t) THEN Head(s) < Head(t)
    ELSE TextLess(Tail(s), Tail(t))

IndexLess(a, b) ==
    IF a = Null THEN b # Null
    ELSE IF b = Null THEN FALSE
    ELSE TextLess(a, b)

----------------------------------------------------------------------------
(* The SQL engine, as far as the statements of the class go *)

TableExists(t) == t = TABLE_NAME /\ master # <<>>

\* PRAGMA table_info(t): one entry per column, empty for an unknown table
TableInfo(t) == IF TableExists(t) THEN master ELSE <<>>

ColumnNamesOf(t) == [i \in 1..Len(TableInfo(t)) |-> TableInfo(t)[i].name]

\* a PRIMARY KEY or UNIQUE column constraint makes an automatic unique index
Indexed(col) == col.col_constraint \in {"PRIMARY KEY", "UNIQUE"}

IndexedNames(t) == {TableInfo(t)[i].name : i \in {j \in 1..Len(TableInfo(t)) : Indexed(TableInfo(t)[j])}}

\* Conflicts with only the primary-key index enforced
Conflicts_PrimaryKeyOnly(t, rs, r, skip) ==
    \E c \in {TableInfo(t)[j].name : j \in {k \in 1..Len(TableInfo(t)) :
                  TableInfo(t)[k].col_constraint = "PRIMARY KEY"}} :
        \E i \in 1..Len(rs) : i # skip /\ SqlEq(rs[i][c], r[c])

\* r would break a unique index of table t against the rows rs, leaving
\* out the row at position skip (0: none); NULLs never collide
Conflicts(t, rs, r, skip) ==
    \E c \in IndexedNames(t) : \E i \in 1..Len(rs) :
        i # skip /\ SqlEq(rs[i][c], r[c])

\* MatchAnyColumn with a containment test (c LIKE '%v%') in place of equality
MatchAnyColumn_Like(column_names, r, v) ==
    \E i \in 1..Len(column_names) :
        r[column_names[i]] # Null /\ v # Null /\ IsSubstring(v, r[column_names[i]])

\* the WHERE clause "c1 = ? OR c2 = ? ..." over column_names, with the same
\* parameter bound to every placeholder
MatchAnyColumn(column_names, r, v) ==
    \E i \in 1..Len(column_names) : SqlEq(r[column_names[i]], v)

\* NonMatching for a DELETE that stops after the first row it removed
RECURSIVE NonMatching_FirstOnly(_, _, _)
NonMatching_FirstOnly(column_names, rs, v) ==
    IF rs = <<>> THEN <<>>
    ELSE IF MatchAnyColumn(column_names, Head(rs), v) THEN Tail(rs)
    ELSE <<Head(rs)>> \o NonMatching_FirstOnly(column_names, Tail(rs), v)

\* the rows of rs a statement with that WHERE clause leaves alone
RECURSIVE NonMatching(_, _, _)
NonMatching(column_names, rs, v) ==
    IF rs = <<>> THEN <<>>
    ELSE IF MatchAnyColumn(column_names, Head(rs), v)
         THEN NonMatching(column_names, Tail(rs), v)
         ELSE <<Head(rs)>> \o NonMatching(column_names, Tail(rs), v)

\* positions of rs in the order of the unique index on column c: by value,
\* rows with equal (NULL) values by rowid
RECURSIVE IndexOrder(_, _, _)
IndexOrder(rs, c, todo) ==
    IF todo = {} THEN <<>>
    ELSE LET first == CHOOSE i \in todo : \A j \in todo \ {i} :
                          \/ IndexLess(rs[i][c], rs[j][c])
                          \/ (rs[i][c] = rs[j][c] /\ i < j)
         IN <<first>> \o IndexOrder(rs, c, todo \ {first})

\* positions in the order a table scan visits them
RECURSIVE ScanOrder(_, _)
ScanOrder(lo, hi) == IF lo > hi THEN <<>> ELSE <<lo>> \o ScanOrder(lo + 1, hi)

RECURSIVE Dedupe(_, _)
Dedupe(s, seen) ==
    IF s = <<>> THEN <<>>
    ELSE IF Head(s) \in seen THEN Dedupe(Tail(s), seen)
    ELSE <<Head(s)>> \o Dedupe(Tail(s), seen \cup {Head(s)})

\* SelectWhereAny answered by a table scan whatever the indexes
SelectWhereAny_ScanOnly(t, column_names, v) ==
    LET order == SelectSeq(ScanOrder(1, Len(rows)),
                           LAMBDA i : MatchAnyColumn(column_names, rows[i], v))
    IN [k \in 1..Len(order) |-> rows[order[k]]]

\* SELECT * FROM t WHERE c1 = ? OR c2 = ? ...: when every column of the
\* clause has an index the engine answers one OR term after the other from
\* that term's index, otherwise it scans the table in rowid order
RECURSIVE OrTermHits(_, _, _, _)
OrTermHits(t, column_names, k, v) ==
    IF k > Len(column_names) THEN <<>>
    ELSE LET c == column_names[k]
             hits == SelectSeq(IndexOrder(rows, c, 1..Len(rows)),
                               LAMBDA i : SqlEq(rows[i][c], v))
         IN hits \o OrTermHits(t, column_names, k + 1, v)

SelectWhereAny(t, column_names, v) ==
    LET order ==
            IF \A i \in 1..Len(column_names) : column_names[i] \in IndexedNames(t)
            THEN Dedupe(OrTermHits(t, column_names, 1, v), {})
            ELSE SelectSeq(ScanOrder(1, Len(rows)),
                           LAMBDA i : MatchAnyColumn(column_names, rows[i], v))
    IN [k \in 1..Len(order) |-> rows[order[k]]]

\* SelectColumn read by a table scan whatever the indexes (ORDER BY rowid)
SelectColumn_ByRowid(t, c) ==
    [k \in 1..Len(rows) |-> rows[k][c]]

\* SELECT c FROM t: a column that has an index is read from the index
\* alone, in index order; any other column by a table scan
SelectColumn(t, c) ==
    LET order == IF c \in IndexedNames(t)
                 THEN IndexOrder(rows, c, 1..Len(rows))
                 ELSE ScanOrder(1, Len(rows))
    IN [k \in 1..Len(order) |-> rows[order[k]][c]]

\* INSERT INTO t (keys of data) VALUES (values of data)
InsertError(t, data) ==
    IF ~TableExists(t) THEN "OperationalError"
    ELSE IF DOMAIN data = {} THEN "OperationalError"
    ELSE IF ~(DOMAIN data \subseteq ColNames) THEN "OperationalError"
    ELSE LET r == [c \in ColNames |-> IF c \in DOMAIN data THEN data[c] ELSE Null]
         IN IF Conflicts(t, rows, r, 0) THEN "IntegrityError" ELSE "none"

InsertedRow(data) == [c \in ColNames |-> IF c \in DOMAIN data THEN data[c] ELSE Null]

\* UpdatedRows of an UPDATE without its WHERE clause
UpdatedRows_NoWhere(pk, k, data) ==
    [i \in 1..Len(rows) |->
        [c \in ColNames |-> IF c \in DOMAIN data THEN data[c] ELSE rows[i][c]]]

\* UPDATE t SET (keys of data) WHERE pk = k
UpdatedRows(pk, k, data) ==
    [i \in 1..Len(rows) |->
        IF SqlEq(rows[i][pk], k)
        THEN [c \in ColNames |-> IF c \in DOMAIN data THEN data[c] ELSE rows[i][c]]
        ELSE rows[i]]

UpdateError(t, pk, k, data) ==
    IF DOMAIN data = {} THEN "OperationalError"
    ELSE IF ~(DOMAIN data \subseteq ColNames) THEN "OperationalError"
    ELSE LET new == UpdatedRows(pk, k, data)
         IN IF \E i \in 1..Len(rows) : SqlEq(rows[i][pk], k) /\ Conflicts(t, new, new[i], i)
            THEN "IntegrityError" ELSE "none"

UpdateRowcount(pk, k) == Cardinality({i \in 1..Len(rows) : SqlEq(rows[i][pk], k)})

\* _get_primary_key_column falling back to the first column instead of raising
_get_primary_key_column_FirstColumn(t) ==
    LET info == TableInfo(t)
        pks == {i \in 1..Len(info) : info[i].col_constraint = "PRIMARY KEY"}
    IN IF info = <<>> THEN ""
       ELSE IF pks = {} THEN info[1].name
       ELSE info[CHOOSE i \in pks : \A j \in pks : i <= j].name

\* _get_primary_key_column: the first column flagged as primary key by
\* PRAGMA table_info, "" standing for the raise of ValueError
_get_primary_key_column(t) ==
    LET info == TableInfo(t)
        pks == {i \in 1..Len(info) : info[i].col_constraint = "PRIMARY KEY"}
    IN IF pks = {} THEN ""
       ELSE info[CHOOSE i \in pks : \A j \in pks : i <= j].name

----------------------------------------------------------------------------

Init ==
    /\ impl \in {"root", "backend"}
    /\ connection = "None"
    /\ cursor = "None"
    /\ master = <<>>
    /\ rows = <<>>
    /\ committed = <<>>
    /\ call = NoCall
    /\ ret = PyNone
    /\ exc = "none"
    /\ log = "none"
    /\ response = NoResponse
    /\ scraped = NoScrape

\* connect without its test of self.connection: every call opens the file
\* again, and the connection it replaces goes with its open transaction
connect_Reopen(ok) ==
    /\ call' = Call("connect", "", IF call.op = "disconnect" THEN call.term ELSE Null)
    /\ ret' = PyNone
    /\ exc' = "none"
    /\ IF ok
       THEN /\ connection' = "open"
            /\ cursor' = "open"
            /\ rows' = committed
            /\ log' = "info: Connected"
       ELSE /\ log' = "error: Error connecting to the database"
            /\ UNCHANGED <<connection, cursor, rows>>
    /\ UNCHANGED <<impl, master, committed, response, scraped>>

\* connect(): sqlite3.connect fails (ok = FALSE) when the file cannot be opened
connect(ok) ==
    /\ call' = Call("connect", "", IF call.op = "disconnect" THEN call.term ELSE Null)
    /\ ret' = PyNone
    /\ exc' = "none"
    /\ IF connection = "None"
       THEN IF ok
            THEN /\ connection' = "open"
                 /\ cursor' = "open"
                 /\ log' = "info: Connected"
            ELSE /\ log' = "error: Error connecting to the database"
                 /\ UNCHANGED <<connection, cursor>>
       ELSE /\ log' = "none"
            /\ UNCHANGED <<connection, cursor>>
    /\ UNCHANGED <<impl, master, rows, committed, response, scraped>>

\* disconnect(): closing the connection drops what was not committed
disconnect ==
    /\ call' = Call("disconnect", "",
                     IF call.op = "insert" /\ exc = "none" /\ log = "none"
                     THEN rows[Len(rows)][COL1] ELSE Null)
    /\ ret' = PyNone
    /\ exc' = "none"
    /\ IF connection # "None"
       THEN /\ connection' = "None"
            /\ cursor' = "closed"
            /\ rows' = committed
            /\ log' = "info: Disconnected"
       ELSE /\ log' = "none"
            /\ UNCHANGED <<connection, cursor, rows>>
    /\ UNCHANGED <<impl, master, committed, response, scraped>>

\* what self.cursor.execute raises before any statement runs: AttributeError
\* on the None of an object never connected, sqlite3.ProgrammingError on the
\* cursor of a closed connection
CursorError ==
    CASE cursor = "None" -> "AttributeError"
      [] cursor = "closed" -> "sqlite3.ProgrammingError"
      [] OTHER -> "none"

\* CreateTableIfNotExists that drops the table of that name and makes it anew
CreateTableIfNotExists_Recreate(t, columns) == columns

\* CREATE TABLE IF NOT EXISTS t (columns): the schema catalog afterwards; a
\* table of that name that is already there stays as it is, whatever the
\* columns of the statement
CreateTableIfNotExists(t, columns) == IF TableExists(t) THEN master ELSE columns

\* create_table(table_name, *columns)
create_table(t, columns) ==
    /\ call' = [Call("create_table", t, Null) EXCEPT !.columns = columns]
    /\ ret' = PyNone
    /\ CASE CursorError = "AttributeError" ->
              /\ exc' = "AttributeError"
              /\ log' = "none"
              /\ UNCHANGED <<master, committed>>
         [] CursorError = "sqlite3.ProgrammingError" ->
              /\ exc' = "none"
              /\ log' = "error: Error creating table"
              /\ UNCHANGED <<master, committed>>
         [] OTHER ->
              /\ exc' = "none"
              /\ master' = CreateTableIfNotExists(t, columns)
              /\ committed' = rows
              /\ log' = "info: Table created successfully"
    /\ UNCHANGED <<impl, connection, cursor, rows, response, scraped>>

\* what a call leaves behind: the rows as the connection sees them, the
\* rows in the file, the value returned, the exception let through and the
\* message logged
Outcome(rs, cm, rv, ex, lg) == [rows |-> rs, committed |-> cm, ret |-> rv, exc |-> ex, log |-> lg]

\* a call that changed no row
Unchanged(rv, ex, lg) == Outcome(rows, committed, rv, ex, lg)

\* the call leaves the outcome o
Apply(o) ==
    /\ rows' = o.rows
    /\ committed' = o.committed
    /\ ret' = o.ret
    /\ exc' = o.exc
    /\ log' = o.log
    /\ UNCHANGED <<impl, connection, cursor, master, response, scraped>>

\* insert(table_name, data): the statement runs on self.connection and is
\* not followed by a commit
insert_outcome(t, data) ==
    IF connection = "None"
    THEN Unchanged(PyNone, "AttributeError", "none")
    ELSE CASE InsertError(t, data) = "IntegrityError" ->
                Unchanged(PyNone, "none", "warning: Duplicate data not inserted")
           [] InsertError(t, data) = "OperationalError" ->
                Unchanged(PyNone, "none", "error: Error inserting data")
           [] OTHER ->
                Outcome(Append(rows, InsertedRow(data)), committed, PyNone, "none", "none")

insert(t, data) ==
    /\ Len(insert_outcome(t, data).rows) <= MaxRows
    /\ call' = Call("insert", t, Null)
    /\ Apply(insert_outcome(t, data))

\* the statements of delete_by_string_match, common to both copies: the
\* error the PRAGMA or the DELETE ends in, or the DELETE and the commit
DeleteError(t) ==
    IF CursorError # "none" THEN CursorError
    ELSE IF ColumnNamesOf(t) = <<>> THEN "sqlite3.OperationalError"
    ELSE "none"

DeleteDone(t, target_string) ==
    LET left == NonMatching(ColumnNamesOf(t), rows, target_string)
        rows_affected == Len(rows) - Len(left)
    IN Outcome(left, left, PyNone, "none",
               IF rows_affected > 0
               THEN "info: Success: Row deleted"
               ELSE "info: No deletion: Target string not found")

\* delete_by_string_match of src/databases.py: no try/except
delete_by_string_match_root_outcome(t, target_string) ==
    IF DeleteError(t) # "none"
    THEN Unchanged(PyNone, DeleteError(t), "none")
    ELSE DeleteDone(t, target_string)

delete_by_string_match_root(t, target_string) ==
    /\ impl = "root"
    /\ call' = Call("delete_by_string_match", t, target_string)
    /\ Apply(delete_by_string_match_root_outcome(t, target_string))

\* delete_by_string_match of src/backend/app/databases.py: sqlite3.Error is caught
delete_by_string_match_backend_outcome(t, target_string) ==
    CASE DeleteError(t) = "AttributeError" ->
           Unchanged(PyNone, "AttributeError", "none")
      [] DeleteError(t) \in {"sqlite3.ProgrammingError", "sqlite3.OperationalError"} ->
           Unchanged(PyNone, "none", "error: Error deleting data")
      [] OTHER ->
           DeleteDone(t, target_string)

delete_by_string_match_backend(t, target_string) ==
    /\ impl = "backend"
    /\ call' = Call("delete_by_string_match", t, target_string)
    /\ Apply(delete_by_string_match_backend_outcome(t, target_string))

\* delete_by_string_match of the copy that runs
delete_by_string_match_outcome(t, target_string) ==
    IF impl = "root"
    THEN delete_by_string_match_root_outcome(t, target_string)
    ELSE delete_by_string_match_backend_outcome(t, target_string)

\* the message update_row logs after its commit: src/databases.py reports
\* success whatever the row count, the backend copy reports by row count
UpdateLog(rows_affected) ==
    IF impl = "root" THEN "info: Data in row updated successfully"
    ELSE IF rows_affected > 0 THEN "info: Success: Row updated"
    ELSE "info: No update: Target string not found"

\* update_row(table_name, target_string, data_to_update), both copies
update_row_outcome(t, target_string, data_to_update) ==
    CASE CursorError = "AttributeError" ->
           Unchanged(PyNone, "AttributeError", "none")
      [] CursorError = "sqlite3.ProgrammingError" ->
           Unchanged(PyNone, "none", "error: Error updating data")
      [] OTHER ->
           LET primary_key_column == _get_primary_key_column(t) IN
           IF primary_key_column = ""
           THEN Unchanged(PyNone, "ValueError", "none")
           ELSE IF UpdateError(t, primary_key_column, target_string, data_to_update) # "none"
           THEN Unchanged(PyNone, "none", "error: Error updating data")
           ELSE LET new == UpdatedRows(primary_key_column, target_string, data_to_update)
                IN Outcome(new, new, PyNone, "none",
                           UpdateLog(UpdateRowcount(primary_key_column, target_string)))

update_row(t, target_string, data_to_update) ==
    /\ call' = Call("update_row", t, target_string)
    /\ Apply(update_row_outcome(t, target_string, data_to_update))

\* get_column_values(table_name, column_name)
get_column_values_outcome(t, column_name) ==
    CASE CursorError = "AttributeError" ->
           Unchanged(PyNone, "AttributeError", "none")
      [] CursorError = "sqlite3.ProgrammingError"
         \/ (CursorError = "none" /\ (~TableExists(t) \/ column_name \notin ColNames)) ->
           Unchanged(PyNone, "none", "error: Error getting column values")
      [] OTHER ->
           Unchanged(PyList(SelectColumn(t, column_name)), "none", "none")

get_column_values(t, column_name) ==
    /\ call' = Call("get_column_values", t, Null)
    /\ Apply(get_column_values_outcome(t, column_name))

\* get_row_containing_term(table_name, search_term)
get_row_containing_term_outcome(t, search_term) ==
    CASE CursorError = "AttributeError" ->
           Unchanged(PyNone, "AttributeError", "none")
      [] CursorError = "sqlite3.ProgrammingError"
         \/ (CursorError = "none" /\ ColumnNamesOf(t) = <<>>) ->
           Unchanged(PyNone, "none", "error: Error getting row containing the term")
      [] OTHER ->
           LET result == SelectWhereAny(t, ColumnNamesOf(t), search_term)
           IN Unchanged(IF result # <<>> THEN PyDict(Head(result)) ELSE PyNone, "none", "none")

get_row_containing_term(t, search_term) ==
    /\ call' = Call("get_row_containing_term", t, search_term)
    /\ Apply(get_row_containing_term_outcome(t, search_term))

\* show_table_data(table_name): [] for an empty table, otherwise the grid
\* is printed and nothing is returned
show_table_data_outcome(t) ==
    CASE CursorError = "AttributeError" ->
           Unchanged(PyNone, "AttributeError", "none")
      [] CursorError = "sqlite3.ProgrammingError"
         \/ (CursorError = "none" /\ ~TableExists(t)) ->
           Unchanged(PyNone, "none", "error: Error showing table data")
      [] rows = <<>> ->
           Unchanged(PyList(<<>>), "none", "info: Table is empty")
      [] OTHER ->
           Unchanged(PyNone, "none", "none")

show_table_data(t) ==
    /\ call' = Call("show_table_data", t, Null)
    /\ Apply(show_table_data_outcome(t))

\* the calls made: every argument on the table that can exist, one
\* representative argument on the table name that is never created (every
\* statement fails there before it looks at its parameters)
DataFor(t) == IF t = TABLE_NAME THEN DataInputs ELSE {[c \in {COL1} |-> <<1>>]}
TermsFor(t) == IF t = TABLE_NAME THEN Strs ELSE {<<1>>}
ColumnsFor(t) == IF t = TABLE_NAME THEN ColNames \cup {BadCol} ELSE {COL1}

Next ==
    \/ \E ok \in BOOLEAN : connect(ok)
    \/ disconnect
    \/ \E columns \in Schemas : create_table(TABLE_NAME, columns)
    \/ \E t \in TableNames : \E data \in DataFor(t) : insert(t, data)
    \/ \E t \in TableNames : \E v \in TermsFor(t) : delete_by_string_match_root(t, v)
    \/ \E t \in TableNames : \E v \in TermsFor(t) : delete_by_string_match_backend(t, v)
    \/ \E t \in TableNames : \E v \in TermsFor(t) : \E data \in DataFor(t) : update_row(t, v, data)
    \/ \E t \in TableNames : \E c \in ColumnsFor(t) : get_column_values(t, c)
    \/ \E t \in TableNames : \E v \in TermsFor(t) : get_row_containing_term(t, v)
    \/ \E t \in TableNames : show_table_data(t)

Spec == Init /\ [][Next]_vars

TypeOK ==
    /\ impl \in {"root", "backend"}
    /\ connection \in {"None", "open"}
    /\ cursor \in {"None", "open", "closed"}
    /\ (connection = "open") = (cursor = "open")
    /\ master \in Schemas \cup {<<>>}
    /\ Len(rows) <= MaxRows
    /\ Len(committed) <= Len(rows)

----------------------------------------------------------------------------
(* src/backend/app/scraping.py: the two scraping functions, each applied to *)
(* the answer of its one requests.get                                       *)

MaxCells == 2
MaxItems == 2

HTTP_OK == 200

\* texts of the registry page, as character codes: the two header labels of
\* the module, one organisation name, and 9 (TAB) for white space
IND_HEADER_1 == <<1>>
IND_HEADER_2 == <<2>>
Labels == {IND_HEADER_1, IND_HEADER_2, <<3>>}
Whitespace == {9}
CellTexts == Labels \cup {<<9, 1>>, <<9, 3, 9>>}

PyStr(x) == [kind |-> "str", val |-> x]

\* str.strip(): white space taken off both ends
RECURSIVE LStrip(_)
LStrip(x) == IF x # <<>> /\ Head(x) \in Whitespace THEN LStrip(Tail(x)) ELSE x

RECURSIVE RStrip(_)
RStrip(x) ==
    IF x # <<>> /\ x[Len(x)] \in Whitespace THEN RStrip(SubSeq(x, 1, Len(x) - 1)) ELSE x

Strip(x) == RStrip(LStrip(x))

\* the cells of the page in document order: tag, scope attribute, text
Cell == [tag : {"th", "td"}, scope : {"row", "col"}, text : CellTexts]
Pages == UNION {[1..n -> Cell] : n \in 0..MaxCells}
PageResponses == {[kind |-> "page", content |-> c] : c \in Pages}

\* the answers of the search API: status code, body text, and the body as
\* response.json() gives it, a mapping with or without the key items
Links == {"https://www.linkedin.com/company/abb", "https://nl.linkedin.com/company/abb-nl"}
Item == [link : Links]
ItemLists == UNION {[1..n -> Item] : n \in 0..MaxItems}
JsonBodies == {[kind |-> "customsearch#search"]}
                  \cup {[kind |-> "customsearch#search", items |-> its] : its \in ItemLists}
StatusCodes == {HTTP_OK, 403, 500}
ErrorTexts == {"Daily Limit Exceeded", "Internal Server Error"}
SearchResponses ==
    {[kind |-> "search", status_code |-> HTTP_OK, text |-> "json", data |-> d] : d \in JsonBodies}
    \cup {[kind |-> "search", status_code |-> c, text |-> x, data |-> [error |-> x]] :
              c \in StatusCodes \ {HTTP_OK}, x \in ErrorTexts}

Organizations == {"ABB B.V.", "BK"}

\* how a call of a scraping function ended: what it returned, the exception
\* it raised with that exception's arguments, and what it printed
Scraped(o, a, rv, ex, ea, pr) ==
    [op |-> o, args |-> a, ret |-> rv, exc |-> ex, exc_args |-> ea, printed |-> pr]

\* soup.select('th[scope=row]')
select_th_scope_row(content) ==
    SelectSeq(content, LAMBDA element : element.tag = "th" /\ element.scope = "row")

\* element.get_text(strip=True)
get_text(element) == Strip(element.text)

\* scrape_ind_organisations(ind_sponsors_url, ind_header_1, ind_header_2)
scrape_ind_organisations_outcome(ind_header_1, ind_header_2) ==
    LET organisation_elements == select_th_scope_row(response.content)
        kept == SelectSeq(organisation_elements,
                          LAMBDA element : get_text(element) \notin {IND_HEADER_1, IND_HEADER_2})
        organisations == [i \in 1..Len(kept) |-> get_text(kept[i])]
    IN Scraped("scrape_ind_organisations", <<ind_header_1, ind_header_2>>,
               PyList(organisations), "none", <<>>, "")

scrape_ind_organisations(ind_header_1, ind_header_2) ==
    /\ response.kind = "page"
    /\ scraped' = scrape_ind_organisations_outcome(ind_header_1, ind_header_2)
    /\ UNCHANGED <<impl, connection, cursor, master, rows, committed, call, ret, exc, log, response>>

\* scrape_organization_linkedin_from_google(organization)
scrape_organization_linkedin_from_google_outcome(organization) ==
    LET op == "scrape_organization_linkedin_from_google" IN
    IF response.status_code = HTTP_OK
    THEN LET data == response.data IN
         IF "items" \in DOMAIN data
         THEN IF data["items"] = <<>>
              THEN Scraped(op, <<organization>>, PyNone, "IndexError", <<"list index out of range">>, "")
              ELSE Scraped(op, <<organization>>, PyStr(data["items"][1]["link"]), "none", <<>>, "")
         ELSE Scraped(op, <<organization>>, PyStr("No results found."), "none", <<>>, "")
    ELSE Scraped(op, <<organization>>, PyNone, "RuntimeError",
                 <<"Error: Unable to retrieve search results.">>, response.text)

scrape_organization_linkedin_from_google(organization) ==
    /\ response.kind = "search"
    /\ scraped' = scrape_organization_linkedin_from_google_outcome(organization)
    /\ UNCHANGED <<impl, connection, cursor, master, rows, committed, call, ret, exc, log, response>>

\* the scraping functions share no state with the store: each run starts
\* from one answer of requests.get
InitScraping ==
    /\ impl = "backend"
    /\ connection = "None"
    /\ cursor = "None"
    /\ master = <<>>
    /\ rows = <<>>
    /\ committed = <<>>
    /\ call = NoCall
    /\ ret = PyNone
    /\ exc = "none"
    /\ log = "none"
    /\ response \in PageResponses \cup SearchResponses
    /\ scraped = NoScrape

NextScraping ==
    \/ \E ind_header_1 \in Labels : \E ind_header_2 \in Labels :
           scrape_ind_organisations(ind_header_1, ind_header_2)
    \/ \E organization \in Organizations :
           scrape_organization_linkedin_from_google(organization)

SpecScraping == InitScraping /\ [][NextScraping]_vars

----------------------------------------------------------------------------
(* Properties *)

Connected == connection = "open"

MutatingOrQueryOps ==
    {"create_table", "insert", "delete_by_string_match", "update_row",
     "get_column_values", "get_row_containing_term", "show_table_data"}

\* the last call ended in a failed statement: an exception got out, or an
\* error or warning was logged in its place
Failed == exc # "none" \/ log \in {"error: Error creating table",
                                   "error: Error inserting data",
                                   "warning: Duplicate data not inserted",
                                   "error: Error deleting data",
                                   "error: Error updating data",
                                   "error: Error getting column values",
                                   "error: Error getting row containing the term",
                                   "error: Error showing table data"}

\* some row of rs holds v in one of its columns
Holds(rs, v) == \E i \in 1..Len(rs) : \E c \in ColNames : rs[i][c] = v

HoldingRows(rs, v) == {i \in 1..Len(rs) : \E c \in ColNames : rs[i][c] = v}

PrimaryKeys(rs) == {rs[i][COL1] : i \in 1..Len(rs)}

\* C1: on a connected store every call of create_table, insert,
\* delete_by_string_match, update_row (on a table with a primary key),
\* get_column_values, get_row_containing_term and show_table_data returns
\* normally, whatever the table name and arguments, and a call whose
\* statement failed leaves the stored rows as they were.
C1_NoStorageFailurePropagates ==
    [][(Connected /\ call'.op \in MutatingOrQueryOps) =>
          /\ \/ exc' = "none"
             \/ (call'.op = "update_row" /\ _get_primary_key_column(call'.table) = "")
          /\ Failed' => (rows' = rows /\ committed' = committed)]_vars

\* C2: on the organisations table, inserting a row whose organisation_name
\* or url is the (text) value an existing row already has in that column
\* raises nothing and leaves the rows exactly as they were.
C2_DuplicateInsertIsNoOp ==
    (Connected /\ master = OrgCols) =>
        \A data \in DataInputs \ {BadData} :
            (\E c \in DOMAIN data : data[c] # Null /\ \E i \in 1..Len(rows) : rows[i][c] = data[c])
            => LET o == insert_outcome(TABLE_NAME, data)
               IN o.exc = "none" /\ o.rows = rows /\ o.committed = committed

C2_Witness ==
    /\ call.op = "insert"
    /\ master = OrgCols
    /\ log = "warning: Duplicate data not inserted"
    /\ exc = "none"
    /\ rows # <<>>

\* C3: after delete_by_string_match(table, v) for a text v the table holds
\* exactly the earlier rows none of whose columns equals v, in their earlier
\* order; a row that only contains v as a proper substring stays.
C3_DeleteExactMatchOnly ==
    (Connected /\ TableExists(TABLE_NAME)) =>
        \A v \in Strs :
            LET o == delete_by_string_match_outcome(TABLE_NAME, v)
            IN /\ o.exc = "none"
               /\ o.rows = SelectSeq(rows, LAMBDA r : r[COL1] # v /\ r[COL2] # v)

C3_Witness ==
    /\ call.op = "delete_by_string_match"
    /\ call.table = TABLE_NAME
    /\ log = "info: Success: Row deleted"
    /\ \E i \in 1..Len(rows) : \E c \in ColNames :
           rows[i][c] # Null /\ IsProperSubstring(call.term, rows[i][c])

\* C4 as stated: deleting by a text v that some row holds removes exactly
\* one row and exactly one primary-key value (taken on tables all of whose
\* organisation_name values are text).
C4_DeleteRemovesExactlyOne ==
    [][(/\ call'.op = "delete_by_string_match"
        /\ call'.table = TABLE_NAME
        /\ Connected
        /\ master = OrgCols
        /\ Null \notin PrimaryKeys(rows)
        /\ Holds(rows, call'.term))
       => (/\ Len(rows') = Len(rows) - 1
           /\ Cardinality(PrimaryKeys(rows')) = Cardinality(PrimaryKeys(rows)) - 1)]_vars

\* C4 amended: deleting by a text v that some row holds removes every row
\* holding v, so the row count drops by the number of such rows, which is
\* at least one and more than one when v is the organisation_name of one
\* row and the url of another; rows that stay keep their primary-key value.
C4_DeleteRemovesEveryHolder ==
    (Connected /\ TableExists(TABLE_NAME)) =>
        \A v \in Strs :
            Holds(rows, v) =>
                LET o == delete_by_string_match_outcome(TABLE_NAME, v)
                IN /\ Len(rows) - Len(o.rows) = Cardinality(HoldingRows(rows, v))
                   /\ Len(o.rows) < Len(rows)
                   /\ ~Holds(o.rows, v)
                   /\ PrimaryKeys(o.rows) =
                          {rows[i][COL1] : i \in (1..Len(rows)) \ HoldingRows(rows, v)}

C4_Witness ==
    /\ call.op = "delete_by_string_match"
    /\ call.table = TABLE_NAME
    /\ call.term \in Strs
    /\ master = OrgCols
    /\ log = "info: Success: Row deleted"
    /\ ~Holds(rows, call.term)
    /\ rows = committed

\* C5 as stated: get_row_containing_term(table, v) returns None exactly
\* when the lookup succeeded and no row has a column equal to v; a lookup
\* that failed is not answered with None.
C5_NoneMeansNotFound ==
    (call.op = "get_row_containing_term" /\ Connected) =>
        ((ret = PyNone) <=> (~Failed /\ ~Holds(rows, call.term)))

\* C6: on the organisations table, right after an insert of a row with a
\* text organisation_name n and url u succeeded,
\* get_row_containing_term(table, n) returns a mapping whose url is u,
\* whatever other rows there are, a row whose url is n included.
C6_LookupAfterInsert ==
    (/\ Connected
     /\ master = OrgCols
     /\ call.op = "insert" /\ exc = "none" /\ log = "none"
     /\ rows[Len(rows)][COL1] # Null)
    => LET o == get_row_containing_term_outcome(TABLE_NAME, rows[Len(rows)][COL1])
       IN /\ o.exc = "none"
          /\ o.ret.kind = "dict"
          /\ o.ret.row[COL2] = rows[Len(rows)][COL2]

C6_Witness ==
    /\ call.op = "get_row_containing_term"
    /\ master = OrgCols
    /\ ret.kind = "dict"
    /\ ret.row[COL1] = call.term
    /\ ret.row = rows[Len(rows)]
    /\ \E i \in 1..(Len(rows) - 1) : rows[i][COL2] = call.term

\* the row r with the columns named in data set to their new values
Overlay(r, data) == [c \in ColNames |-> IF c \in DOMAIN data THEN data[c] ELSE r[c]]

\* C7: on the organisations table update_row(table, k, updates) raises
\* nothing; it sets the columns named in updates in the row whose
\* organisation_name is k and changes no other row and no other column,
\* unless the new values would repeat another row's organisation_name or
\* url, and then no row changes.
C7_UpdateFrame ==
    (Connected /\ master = OrgCols) =>
        \A k \in Strs : \A data \in DataInputs \ {BadData} :
            LET o == update_row_outcome(TABLE_NAME, k, data)
                clash == \E i \in 1..Len(rows) : \E j \in 1..Len(rows) : \E c \in ColNames :
                             /\ rows[i][COL1] = k
                             /\ j # i
                             /\ c \in DOMAIN data
                             /\ data[c] # Null
                             /\ rows[j][c] = data[c]
            IN /\ o.exc = "none"
               /\ Len(o.rows) = Len(rows)
               /\ \A i \in 1..Len(rows) :
                      o.rows[i] = IF rows[i][COL1] = k /\ ~clash
                                  THEN Overlay(rows[i], data)
                                  ELSE rows[i]

C7_Witness ==
    /\ call.op = "update_row"
    /\ master = OrgCols
    /\ log \in {"info: Success: Row updated", "info: Data in row updated successfully"}
    /\ Len(rows) = 2
    /\ rows[1][COL1] # call.term
    /\ rows[2][COL1] = call.term
    /\ rows[2][COL2] = <<1, 2>>
    /\ rows = committed

\* C8: on a table created without a primary-key column update_row raises
\* ValueError whatever the key and the updates, and no row changes.
C8_UpdateNeedsPrimaryKey ==
    (Connected /\ master = PlainCols) =>
        \A k \in Strs : \A data \in DataInputs :
            LET o == update_row_outcome(TABLE_NAME, k, data)
            IN o.exc = "ValueError" /\ o.rows = rows /\ o.committed = committed

C8_Witness ==
    /\ call.op = "update_row"
    /\ call.table = TABLE_NAME
    /\ master = PlainCols
    /\ exc = "ValueError"
    /\ \E i \in 1..Len(rows) : rows[i][COL1] = call.term

\* C9 as stated: the organisation_name values of the rows of the
\* organisations table are never NULL and pairwise distinct.
C9_PrimaryKeyUniqueNotNull ==
    master = OrgCols =>
        /\ \A i \in 1..Len(rows) : rows[i][COL1] # Null
        /\ \A i \in 1..Len(rows) : \A j \in 1..Len(rows) :
               i # j => rows[i][COL1] # rows[j][COL1]

\* C11: create_table(name, columns) on a store where the table name already
\* exists raises nothing and leaves the schema and the rows of the table as
\* they were, also when columns is not the schema the table has.
C11_CreateTableIdempotent ==
    [][(call'.op = "create_table" /\ TableExists(call'.table))
       => (exc' = "none" /\ master' = master /\ rows' = rows)]_vars

C11_Witness ==
    /\ call.op = "create_table"
    /\ log = "info: Table created successfully"
    /\ master # <<>>
    /\ call.columns # master
    /\ rows # <<>>

\* C12: connect and disconnect raise nothing; after connect the connection
\* is set exactly when it was set before or the file could be opened, and a
\* connect on a set connection keeps that connection with its open
\* transaction and logs nothing; after disconnect the connection is unset,
\* and a disconnect on an unset connection changes nothing.
C12_ConnectionState ==
    [][/\ call'.op = "connect" =>
              \A ok \in BOOLEAN :
                  connect(ok) =>
                      /\ exc' = "none"
                      /\ (connection' = "open") <=> (connection = "open" \/ ok)
                      /\ connection = "open" =>
                             (UNCHANGED <<connection, cursor, master, rows, committed>> /\ log' = "none")
       /\ call'.op = "disconnect" =>
              /\ exc' = "none"
              /\ connection' = "None"
              /\ connection = "None" =>
                     (UNCHANGED <<connection, cursor, master, rows, committed>> /\ log' = "none")]_vars

C12_Witness ==
    /\ call.op = "connect"
    /\ connection = "open"
    /\ log = "none"
    /\ rows # committed

\* the values of column c of the rows rs in the order the rows were inserted
InInsertionOrder(rs, c) == [i \in 1..Len(rs) |-> rs[i][c]]

\* C13 as stated: on a table with text keys get_column_values returns the
\* values of a column, one per row, in the order the rows were inserted.
C13_InsertionOrder ==
    (/\ call.op = "get_column_values"
     /\ call.table = TABLE_NAME
     /\ Connected
     /\ Null \notin PrimaryKeys(rows)
     /\ ret.kind = "list")
    => \E c \in ColNames : ret.vals = InInsertionOrder(rows, c)

\* C13 amended: get_column_values(table, column) returns one entry per row
\* of the table, each value as often as rows hold it, in the order the
\* engine reads the column: ascending by value (NULL first) when the column
\* has a PRIMARY KEY or UNIQUE index, as both columns of organisations
\* have, and in insertion order when it has none.
C13_DatabaseOrder ==
    (Connected /\ TableExists(TABLE_NAME)) =>
        \A c \in ColNames :
            LET o == get_column_values_outcome(TABLE_NAME, c)
                vals == o.ret.vals
            IN /\ o.exc = "none"
               /\ o.ret.kind = "list"
               /\ Len(vals) = Len(rows)
               /\ \A v \in Val : Cardinality({i \in 1..Len(vals) : vals[i] = v})
                                  = Cardinality({i \in 1..Len(rows) : rows[i][c] = v})
               /\ IF c \in IndexedNames(TABLE_NAME)
                  THEN \A i \in 1..Len(vals) : \A j \in 1..Len(vals) :
                           i < j => ~IndexLess(vals[j], vals[i])
                  ELSE vals = InInsertionOrder(rows, c)

C13_Witness ==
    /\ call.op = "get_column_values"
    /\ master = OrgCols
    /\ Null \notin PrimaryKeys(rows)
    /\ ret.kind = "list"
    /\ Len(ret.vals) = 2
    /\ ret.vals = <<rows[2][COL1], rows[1][COL1]>>
    /\ ret.vals # InInsertionOrder(rows, COL1)

\* C14 as stated: on an answer with status 200
\* scrape_organization_linkedin_from_google raises nothing; it returns
\* "No results found." when the body has no items key and when items is the
\* empty list, and the link of the first item otherwise.
C14_NoResultsSentinel ==
    (scraped.op = "scrape_organization_linkedin_from_google" /\ response.status_code = HTTP_OK)
    => LET data == response.data
           results == IF "items" \in DOMAIN data THEN data["items"] ELSE <<>>
       IN /\ scraped.exc = "none"
          /\ scraped.ret = IF results = <<>>
                           THEN PyStr("No results found.")
                           ELSE PyStr(results[1]["link"])

\* C15 as stated: on an answer whose status is not 200
\* scrape_organization_linkedin_from_google returns nothing and raises
\* RuntimeError, and the body of the answer is among the arguments of the
\* exception raised.
C15_ErrorCarriesBody ==
    (scraped.op = "scrape_organization_linkedin_from_google" /\ response.status_code # HTTP_OK)
    => /\ scraped.exc = "RuntimeError"
       /\ scraped.ret = PyNone
       /\ \E i \in 1..Len(scraped.exc_args) : scraped.exc_args[i] = response.text

\* C16 as stated: scrape_ind_organisations(url, ind_header_1, ind_header_2)
\* returns, in document order, the stripped text of every th cell with
\* scope=row whose stripped text is neither ind_header_1 nor ind_header_2.
C16_FiltersSuppliedLabels ==
    scraped.op = "scrape_ind_organisations"
    => LET supplied == {scraped.args[1], scraped.args[2]}
           cells == select_th_scope_row(response.content)
           texts == [i \in 1..Len(cells) |-> Strip(cells[i].text)]
       IN /\ scraped.exc = "none"
          /\ scraped.ret = PyList(SelectSeq(texts, LAMBDA x : x \notin supplied))

\* C17 as stated: after insert(table, r) succeeded and was followed by
\* disconnect() and connect() with no call in between,
\* get_row_containing_term(table, key of r) returns a row with that key.
C17_InsertIsDurable ==
    [][(/\ call.op = "connect"
        /\ call.term # Null
        /\ Connected
        /\ call'.op = "get_row_containing_term"
        /\ call'.table = TABLE_NAME
        /\ call'.term = call.term)
       => (ret'.kind = "dict" /\ ret'.row[COL1] = call.term)]_vars

\* C18 as stated: in either copy, an update_row whose key is the
\* organisation_name of no row leaves the rows as they were and, when its
\* statement ran, logs the message of the row count 0, 'No update: Target
\* string not found', never a message of success.
C18_CopiesAgreeOnMissingKey ==
    [][(/\ call'.op = "update_row"
        /\ call'.table = TABLE_NAME
        /\ Connected
        /\ _get_primary_key_column(TABLE_NAME) # ""
        /\ UpdateRowcount(_get_primary_key_column(TABLE_NAME), call'.term) = 0
        /\ ~Failed')
       => (/\ rows' = rows
           /\ log' = "info: No update: Target string not found")]_vars

\* C10 as stated: insert returns normally in every connection state, also
\* before the first connect and after disconnect.
C10_InsertNeverRaises ==
    call.op = "insert" => exc = "none"

====
